---- MODULE Spec2Model ----
(***************************************************************************)
(* State-machine model of the game server in src/functions/socket.js:      *)
(* the two registries (rooms, players), the player objects they share, the *)
(* pending start timers, and one action per inbound socket event.          *)
(***************************************************************************)
EXTENDS Integers, Sequences, FiniteSets, TLC

VARIABLES
  rooms,    \* Map roomId -> room object (socket.js:20)
  players,  \* Map socket.id -> reference to a player object (socket.js:21)
  objs,     \* the player objects, by reference: rooms and players share them
  timers,   \* pending setTimeout(startGame) callbacks, oldest first
  out,      \* what the handler that ran last emitted, in order
  fault,    \* TRUE once a handler threw (dereference of undefined)
  sockets,  \* the connections that are open: io.on("connection") .. disconnect
  issued    \* how many room ids uuidv4() has handed out

vars == <<rooms, players, objs, timers, out, fault, sockets, issued>>

\* The state as one value: the handlers below are functions from state to state.
World == [rooms |-> rooms, players |-> players, objs |-> objs,
          timers |-> timers, out |-> out, fault |-> fault]

----------------------------------------------------------------------------
(* Values *)

Null == "null"          \* JavaScript null / undefined where a string is held

CLASSIC == "classic"
TACTICAL == "tactical"
RECYCLING == "recycling"
GAME_MODES == {CLASSIC, TACTICAL, RECYCLING}

\* GAME_MODE_CONFIG[mode].startingHealth, with the || CLASSIC fallback
StartingHealth(mode) == IF mode = RECYCLING THEN 150 ELSE 100

NumSuits == 4
NumRanks == 13
HandSize == 8
MaxDiscards == 3
MaxCardsPerDiscard == 3
MaxArmor == 50

Suits == <<"hearts", "diamonds", "clubs", "spades">>
DeckSize == NumSuits * NumRanks

\* A card is identified by its id; the id `${suit}-${rank}-${random}` names the
\* suit and the rank.  Card number c (0-based, in createDeck's push order)
\* is the card of suit c \div 13 and rank (c % 13) + 1.
CardIds == 0 .. (DeckSize - 1)
SuitOf(c) == Suits[(c \div NumRanks) + 1]
RankOf(c) == (c % NumRanks) + 1

NewCard(c) == [id |-> c, selected |-> FALSE, markedForDiscard |-> FALSE]

\* { ...card, selected: false, markedForDiscard: false }
ClearFlags(card) == [card EXCEPT !.selected = FALSE, !.markedForDiscard = FALSE]

----------------------------------------------------------------------------
(* Sequences as JavaScript arrays *)

MapSeq(f(_), s) == [i \in 1 .. Len(s) |-> f(s[i])]

\* Array.prototype.slice(from, to), 0-based, to exclusive, clamped
Slice(s, from, to) ==
  LET t == IF to > Len(s) THEN Len(s) ELSE to
  IN IF from >= t THEN << >> ELSE SubSeq(s, from + 1, t)

\* s.splice(0, n): the removed head and what is left
Taken(s, n) == Slice(s, 0, n)
Left(s, n) == Slice(s, n, Len(s))

Swap(s, i, j) == [s EXCEPT ![i] = s[j], ![j] = s[i]]

Min(a, b) == IF a < b THEN a ELSE b
Max(a, b) == IF a > b THEN a ELSE b

\* for (let i = length - 1; i > 0; i--) { j = floor(random() * (i + 1)); swap(i, j) }
\* draws[i] is the j drawn at index i (0-based indices, as in the source).
RECURSIVE ShuffleFrom(_, _, _)
ShuffleFrom(s, draws, i) ==
  IF i < 1 THEN s
  ELSE ShuffleFrom(Swap(s, i + 1, draws[i] + 1), draws, i - 1)

Shuffle(s, draws) == ShuffleFrom(s, draws, Len(s) - 1)

\* Streams of Math.random(): DrawsK[i] = Math.floor(Math.random() * (i + 1)).
DrawsA ==
  <<1, 1, 2, 4, 4, 1, 3, 3, 3, 9, 3, 5, 7, 4, 6, 1, 2, 3, 4, 5, 6, 8, 9, 10,
    14, 15, 16, 17, 18, 20, 21, 22, 24, 28, 29, 30, 32, 33, 34, 36, 37, 38,
    40, 42, 43, 44, 45, 46, 48, 49, 50>>
DrawsB ==
  <<0, 0, 0, 0, 0, 6, 0, 7, 6, 10, 8, 11, 9, 0, 14, 0, 7, 8, 10, 11, 12, 13,
    14, 15, 17, 18, 20, 22, 23, 24, 25, 26, 27, 28, 30, 31, 33, 35, 36, 37,
    38, 39, 40, 41, 42, 43, 44, 46, 47, 49, 51>>
DrawsC == [i \in 1 .. (DeckSize - 1) |-> i \div 2]
DrawsD == [i \in 1 .. (DeckSize - 1) |-> 0]
AllDraws == <<DrawsA, DrawsB, DrawsC, DrawsD>>

\* A shuffle that deals the royal cards of hearts to the first player and
\* the low clubs with two aces to the second
DrawsE ==
  <<1, 1, 1, 4, 2, 3, 3, 3, 5, 6, 1, 4, 2, 1, 4, 1, 2, 3, 4, 5, 6, 7, 14, 15,
    16, 17, 18, 20, 21, 23, 24, 25, 32, 33, 34, 35, 36, 37, 38, 40, 41, 42,
    43, 44, 45, 46, 47, 48, 49, 50, 51>>
HandDraws == <<DrawsE, DrawsA, DrawsB, DrawsC>>

NumStreams == 1
Streams == {AllDraws[k] : k \in 1 .. Min(NumStreams, Len(AllDraws))}

\* createDeck(): suits outermost, ranks 1..13, then the shuffle
createDeck(draws) == Shuffle([k \in 1 .. DeckSize |-> NewCard(k - 1)], draws)

----------------------------------------------------------------------------
(* validateHand / evaluateHand; cards is a sequence of card ids *)

RECURSIVE InsertAsc(_, _)
InsertAsc(x, s) ==
  IF s = << >> THEN <<x>>
  ELSE IF x < Head(s) THEN <<x>> \o s
  ELSE <<Head(s)>> \o InsertAsc(x, Tail(s))

RECURSIVE SortAsc(_)
SortAsc(s) == IF s = << >> THEN << >> ELSE InsertAsc(Head(s), SortAsc(Tail(s)))

\* [...cards].sort((a, b) => a.rank - b.rank).map(c => c.rank)
SortedRanks(cards) == SortAsc(MapSeq(RankOf, cards))

\* Object.values(rankCounts).sort((a, b) => b - a): only the order of the
\* values matters, so they are sorted ascending and read from the end.
RankCounts(ranks) ==
  LET distinct == {ranks[i] : i \in 1 .. Len(ranks)}
      countOf(r) == Cardinality({i \in 1 .. Len(ranks) : ranks[i] = r})
      RECURSIVE values(_)
      values(rs) == IF rs = {} THEN << >>
                    ELSE LET r == CHOOSE x \in rs : TRUE
                         IN <<countOf(r)>> \o values(rs \ {r})
  IN SortAsc(values(distinct))

\* counts[k] (0-based) of the descending array; 0 stands for undefined,
\* which equals none of 2, 3, 4
CountAt(counts, k) == IF k < Len(counts) THEN counts[Len(counts) - k] ELSE 0

IsFlush(cards) ==
  /\ \A i \in 1 .. Len(cards) : SuitOf(cards[i]) = SuitOf(cards[1])
  /\ Len(cards) = 5

FiveDistinct(cards, ranks) ==
  Len(cards) = 5 /\ Cardinality({ranks[i] : i \in 1 .. Len(ranks)}) = 5

IsLowStraight(cards, ranks) ==
  FiveDistinct(cards, ranks) /\ ranks = <<1, 2, 3, 4, 5>>

IsStraight(cards, ranks) ==
  /\ FiveDistinct(cards, ranks)
  /\ ~IsLowStraight(cards, ranks)
  /\ ranks[5] - ranks[1] = 4

IsRoyal(cards, ranks) ==
  FiveDistinct(cards, ranks) /\ IsFlush(cards) /\ ranks = <<1, 10, 11, 12, 13>>

validateHand(cards) ==
  LET ranks == SortedRanks(cards)
      counts == RankCounts(ranks)
      c0 == CountAt(counts, 0)
      c1 == CountAt(counts, 1)
      straight == IsStraight(cards, ranks) \/ IsLowStraight(cards, ranks)
      n == Len(cards)
  IN IF n = 0 THEN [valid |-> FALSE, error |-> "No cards selected"]
     ELSE IF n = 1 THEN [valid |-> TRUE, error |-> Null]
     ELSE IF n = 2 THEN
       IF c0 # 2 THEN [valid |-> FALSE, error |-> "Two cards must be a pair"]
       ELSE [valid |-> TRUE, error |-> Null]
     ELSE IF n = 3 THEN
       IF c0 # 3 THEN [valid |-> FALSE, error |-> "Three cards must be three of a kind"]
       ELSE [valid |-> TRUE, error |-> Null]
     ELSE IF n = 4 THEN
       IF c0 = 4 THEN [valid |-> TRUE, error |-> Null]
       ELSE IF c0 = 2 /\ c1 = 2 THEN [valid |-> TRUE, error |-> Null]
       ELSE [valid |-> FALSE, error |-> "Four cards must be four of a kind or two pair"]
     ELSE IF n = 5 THEN
       IF IsRoyal(cards, ranks) THEN [valid |-> TRUE, error |-> Null]
       ELSE IF IsFlush(cards) /\ straight THEN [valid |-> TRUE, error |-> Null]
       ELSE IF c0 = 3 /\ c1 = 2 THEN [valid |-> TRUE, error |-> Null]
       ELSE IF IsFlush(cards) THEN [valid |-> TRUE, error |-> Null]
       ELSE IF straight THEN [valid |-> TRUE, error |-> Null]
       ELSE [valid |-> FALSE, error |-> "5 cards must form a ranked hand"]
     ELSE [valid |-> FALSE, error |-> "Invalid number of cards"]

\* HAND_RANKINGS[type].damage
BaseDamage(type) ==
  CASE type = "Royal Flush" -> 50
    [] type = "Straight Flush" -> 40
    [] type = "Four of a Kind" -> 35
    [] type = "Full House" -> 30
    [] type = "Flush" -> 25
    [] type = "Straight" -> 20
    [] type = "Three of a Kind" -> 15
    [] type = "Two Pair" -> 10
    [] type = "One Pair" -> 5
    [] type = "High Card" -> 1

\* The ace counted low
FaceValueAceLow(c) == RankOf(c)

FaceValue(c) == IF RankOf(c) = 1 THEN 14 ELSE RankOf(c)

RECURSIVE SumSeq(_)
SumSeq(s) == IF s = << >> THEN 0 ELSE Head(s) + SumSeq(Tail(s))

HandType(cards) ==
  LET ranks == SortedRanks(cards)
      counts == RankCounts(ranks)
      c0 == CountAt(counts, 0)
      c1 == CountAt(counts, 1)
      straight == IsStraight(cards, ranks) \/ IsLowStraight(cards, ranks)
  IN IF IsRoyal(cards, ranks) THEN "Royal Flush"
     ELSE IF IsFlush(cards) /\ straight THEN "Straight Flush"
     ELSE IF c0 = 4 THEN "Four of a Kind"
     ELSE IF c0 = 3 /\ c1 = 2 THEN "Full House"
     ELSE IF IsFlush(cards) THEN "Flush"
     ELSE IF straight THEN "Straight"
     ELSE IF c0 = 3 THEN "Three of a Kind"
     ELSE IF c0 = 2 /\ c1 = 2 THEN "Two Pair"
     ELSE IF c0 = 2 THEN "One Pair"
     ELSE "High Card"

evaluateHand(cards) ==
  IF Len(cards) = 0 THEN [type |-> "No Cards", damage |-> 0]
  ELSE IF ~validateHand(cards).valid THEN [type |-> "Invalid Hand", damage |-> 0]
  ELSE LET type == HandType(cards)
       IN [type |-> type,
           damage |-> BaseDamage(type) + SumSeq(MapSeq(FaceValue, cards))]

----------------------------------------------------------------------------
(* Objects *)

\* A player object as setPlayerName creates it: { id, name, roomId: null }.
\* inGame: startGame / acceptRematch has set hand, selectedCards, health, ...;
\* hasArmor: armor has been set (Tactical deal).  Until then those fields are
\* undefined in the source and hold a placeholder here.
NewPlayer(s) ==
  [id |-> s, roomId |-> Null, inGame |-> FALSE, health |-> 0, maxHealth |-> 0,
   hand |-> << >>, selectedCards |-> << >>, discardsUsed |-> 0,
   maxDiscards |-> 0, maxCardsPerDiscard |-> 0,
   hasArmor |-> FALSE, armor |-> 0, prediction |-> Null]

NoHand == [type |-> Null, damage |-> 0]     \* lastPlayedHand: null

\* The room object of createRoom
NewRoom(mode, owner) ==
  [gameMode |-> mode, players |-> <<owner>>, gameState |-> "waiting",
   currentPlayer |-> 0, turn |-> 1, deck |-> << >>, discardPile |-> << >>,
   lastPlayedHand |-> NoHand]

\* Outbound events: socket.emit, io.to(room).emit, io.to(player.id).emit,
\* socket.to(room).emit, io.emit
ToSocket(s, ev) == [ch |-> "socket", to |-> s, ev |-> ev]
ToRoom(r, ev) == [ch |-> "room", to |-> r, ev |-> ev]
ToPlayer(s, ev) == [ch |-> "player", to |-> s, ev |-> ev]
ToOthers(r, ev) == [ch |-> "others", to |-> r, ev |-> ev]
ToAll(ev) == [ch |-> "all", to |-> Null, ev |-> ev]

\* A handler that returns without a word, one that emits, one that throws
Silent(w) == [w EXCEPT !.out = << >>]
Emit(w, msgs) == [w EXCEPT !.out = msgs]
Throw(w) == [w EXCEPT !.out = << >>, !.fault = TRUE]

\* JavaScript truthiness of a prediction value
Truthy(v) == v \notin {Null, ""}

\* room.players.findIndex((p) => p.id === socket.id), 0-based, -1 if none
FindIndex(w, r, s) ==
  LET ps == w.rooms[r].players
      hits == {i \in 1 .. Len(ps) : w.objs[ps[i]].id = s}
  IN IF hits = {} THEN -1
     ELSE (CHOOSE i \in hits : \A k \in hits : i <= k) - 1

\* hand.find((c) => c.id === cardId): its position, 0 if none
FindCard(hand, cardId) ==
  LET hits == {i \in 1 .. Len(hand) : hand[i].id = cardId}
  IN IF hits = {} THEN 0 ELSE CHOOSE i \in hits : \A k \in hits : i <= k

IsSelected(c) == c.selected
NotSelected(c) == ~c.selected
IsMarked(c) == c.markedForDiscard
NotMarked(c) == ~c.markedForDiscard
IdOf(c) == c.id

\* hand.filter((c) => c.selected), as references (ids)
SelectedOf(hand) == MapSeq(IdOf, SelectSeq(hand, IsSelected))

----------------------------------------------------------------------------
(* startGame and the deal it shares with acceptRematch *)

\* The body of room.players.forEach((player, index) => ...)
DealTo(player, index, deck, mode) ==
  LET dealt == [player EXCEPT
                  !.inGame = TRUE,
                  !.health = StartingHealth(mode),
                  !.maxHealth = StartingHealth(mode),
                  !.hand = Slice(deck, index * HandSize, (index + 1) * HandSize),
                  !.selectedCards = << >>,
                  !.discardsUsed = 0,
                  !.maxDiscards = MaxDiscards,
                  !.maxCardsPerDiscard = MaxCardsPerDiscard]
  IN IF mode = TACTICAL
     THEN [dealt EXCEPT !.hasArmor = TRUE, !.armor = 0, !.prediction = Null]
     ELSE dealt

DealAll(os, ps, deck, mode) ==
  [o \in 1 .. Len(os) |->
     LET at == {i \in 1 .. Len(ps) : ps[i] = o}
     IN IF at = {} THEN os[o]
        ELSE DealTo(os[o], (CHOOSE i \in at : \A k \in at : i >= k) - 1, deck, mode)]

hStartGame(w, r, draws, first) ==
  IF r \notin DOMAIN w.rooms THEN Silent(w)
  ELSE IF Len(w.rooms[r].players) # 2 THEN Silent(w)
  ELSE
    LET room == w.rooms[r]
        deck == createDeck(draws)
        room1 == [room EXCEPT
                    !.gameState = "playing",
                    !.currentPlayer = first,
                    !.turn = 1,
                    !.deck = Slice(deck, 2 * HandSize, Len(deck)),
                    !.discardPile = IF room.gameMode = RECYCLING THEN << >> ELSE @]
    IN [w EXCEPT
          !.objs = DealAll(w.objs, room.players, deck, room.gameMode),
          !.rooms = [w.rooms EXCEPT ![r] = room1],
          !.out = <<ToRoom(r, "gameStarted")>>
                  \o [i \in 1 .. 2 |-> ToPlayer(w.objs[room.players[i]].id, "gameStarted")]]

----------------------------------------------------------------------------
(* selectCard, markForDiscard, discardCards *)

\* The guard without its gameState test
MayActInAnyState(w, s, r) ==
  /\ r \in DOMAIN w.rooms
  /\ s \in DOMAIN w.players
  /\ FindIndex(w, r, s) = w.rooms[r].currentPlayer

\* The guard the turn handlers share: the room and the sender's player record
\* exist, the room is playing, and the sender sits at the current index.
MayAct(w, s, r) ==
  /\ r \in DOMAIN w.rooms
  /\ s \in DOMAIN w.players
  /\ w.rooms[r].gameState = "playing"
  /\ FindIndex(w, r, s) = w.rooms[r].currentPlayer

hSelectCard(w, s, r, cardId) ==
  IF ~MayAct(w, s, r) THEN Silent(w)
  ELSE
    LET o == w.rooms[r].players[FindIndex(w, r, s) + 1]
        p == w.objs[o]
        k == FindCard(p.hand, cardId)
    IN IF ~p.inGame THEN Throw(w)
       ELSE IF k = 0 THEN Silent(w)
       ELSE
         LET hand1 == [p.hand EXCEPT ![k].selected = ~@]
             p1 == [p EXCEPT !.hand = hand1, !.selectedCards = SelectedOf(hand1)]
         IN [w EXCEPT !.objs[o] = p1, !.out = <<ToRoom(r, "cardSelected")>>]

\* The handler answering a card it does not find with an error
hMarkForDiscardAnswering(w, s, r, cardId) ==
  IF ~MayAct(w, s, r) THEN Silent(w)
  ELSE
    LET o == w.rooms[r].players[FindIndex(w, r, s) + 1]
        p == w.objs[o]
        k == FindCard(p.hand, cardId)
    IN IF ~p.inGame THEN Throw(w)
       ELSE IF k = 0 THEN Emit(w, <<ToSocket(s, "error")>>)
       ELSE [w EXCEPT !.objs[o].hand[k].markedForDiscard = ~@,
                      !.out = <<ToRoom(r, "cardMarkedForDiscard")>>]

hMarkForDiscard(w, s, r, cardId) ==
  IF ~MayAct(w, s, r) THEN Silent(w)
  ELSE
    LET o == w.rooms[r].players[FindIndex(w, r, s) + 1]
        p == w.objs[o]
        k == FindCard(p.hand, cardId)
    IN IF ~p.inGame THEN Throw(w)
       ELSE IF k = 0 THEN Silent(w)
       ELSE [w EXCEPT !.objs[o].hand[k].markedForDiscard = ~@,
                      !.out = <<ToRoom(r, "cardMarkedForDiscard")>>]

\* The refusal without the cap on the cards of one discard
DiscardRefusedUncapped(p, markedCards) ==
  \/ Len(markedCards) = 0
  \/ p.discardsUsed >= p.maxDiscards

\* The refusal without the count of discards used
DiscardRefusedUncounted(p, markedCards) ==
  \/ Len(markedCards) = 0
  \/ Len(markedCards) > p.maxCardsPerDiscard

\* markedCards.length === 0 || > maxCardsPerDiscard || discardsUsed >= maxDiscards
DiscardRefused(p, markedCards) ==
  \/ Len(markedCards) = 0
  \/ Len(markedCards) > p.maxCardsPerDiscard
  \/ p.discardsUsed >= p.maxDiscards

hDiscardCards(w, s, r) ==
  IF ~MayAct(w, s, r) THEN Silent(w)
  ELSE
    LET room == w.rooms[r]
        o == room.players[FindIndex(w, r, s) + 1]
        p == w.objs[o]
        markedCards == SelectSeq(p.hand, IsMarked)
        n == Len(markedCards)
    IN IF ~p.inGame THEN Throw(w)
       ELSE IF DiscardRefused(p, markedCards) THEN Silent(w)
       ELSE
         LET newCards == MapSeq(ClearFlags, Taken(room.deck, n))
             p1 == [p EXCEPT !.hand = SelectSeq(p.hand, NotMarked) \o newCards,
                             !.discardsUsed = @ + 1]
             room1 == [room EXCEPT
                         !.discardPile = IF room.gameMode = RECYCLING
                                         THEN @ \o MapSeq(ClearFlags, markedCards)
                                         ELSE @,
                         !.deck = Left(room.deck, n)]
         IN [w EXCEPT !.objs[o] = p1, !.rooms[r] = room1,
                      !.out = <<ToRoom(r, "gameStateUpdate")>>]

----------------------------------------------------------------------------
(* makePrediction *)

\* The handler without the refusal of the current player's own prediction
hMakePredictionOwnTurn(w, s, r, prediction) ==
  IF r \notin DOMAIN w.rooms \/ s \notin DOMAIN w.players THEN Silent(w)
  ELSE IF w.rooms[r].gameMode # TACTICAL THEN Silent(w)
  ELSE
    LET room == w.rooms[r]
        playerIndex == FindIndex(w, r, s)
    IN IF playerIndex = -1 THEN Throw(w)
       ELSE [w EXCEPT !.objs[room.players[playerIndex + 1]].prediction = prediction,
                      !.out = <<ToRoom(r, "predictionMade")>>]

hMakePrediction(w, s, r, prediction) ==
  IF r \notin DOMAIN w.rooms \/ s \notin DOMAIN w.players THEN Silent(w)
  ELSE IF w.rooms[r].gameMode # TACTICAL THEN Silent(w)
  ELSE
    LET room == w.rooms[r]
        playerIndex == FindIndex(w, r, s)
    IN IF playerIndex = room.currentPlayer
       THEN Emit(w, <<ToSocket(s, "error")>>)
       \* room.players[-1] is undefined: the assignment throws
       ELSE IF playerIndex = -1 THEN Throw(w)
       ELSE [w EXCEPT !.objs[room.players[playerIndex + 1]].prediction = prediction,
                      !.out = <<ToRoom(r, "predictionMade")>>]

----------------------------------------------------------------------------
(* playHand and buildArmor *)

\* The multipliers the other way round
PredictedSwapped(d, prediction, type) ==
  IF prediction = type THEN (5 * d) \div 4
  ELSE d \div 4


\* Tactical: the prediction multiplier of playHand
Predicted(d, prediction, type) ==
  IF prediction = type THEN d \div 4          \* Math.floor(d * 0.25)
  ELSE (5 * d) \div 4                         \* Math.floor(d * 1.25)

\* Damage resolution against enemy: the enemy record afterwards and the
\* damage that reached its health
Resolve(mode, enemy, handResult) ==
  LET guessed == mode = TACTICAL /\ Truthy(enemy.prediction)
      d1 == IF guessed
            THEN Predicted(handResult.damage, enemy.prediction, handResult.type)
            ELSE handResult.damage
      armored == mode = TACTICAL /\ enemy.armor > 0
      armorAbsorbed == IF armored THEN Min(enemy.armor, d1) ELSE 0
      finalDamage == d1 - armorAbsorbed
  IN [enemy |-> [enemy EXCEPT
                   !.prediction = IF guessed THEN Null ELSE @,
                   !.armor = @ - armorAbsorbed,
                   !.health = Max(0, @ - finalDamage)],
      finalDamage |-> finalDamage]

\* The shuffled pile put on top of the deck instead of under it
RecycleOnTop(room, playedCards, draws) ==
  IF room.gameMode # RECYCLING THEN room
  ELSE
    LET pile == room.discardPile \o MapSeq(ClearFlags, playedCards)
    IN IF Len(room.deck) < HandSize /\ Len(pile) > 0
       THEN [room EXCEPT !.deck = Shuffle(pile, draws) \o @, !.discardPile = << >>]
       ELSE [room EXCEPT !.discardPile = pile]

\* Recycling: the played cards go to the discard pile, which is shuffled
\* back under the deck when the deck is short
Recycle(room, playedCards, draws) ==
  IF room.gameMode # RECYCLING THEN room
  ELSE
    LET pile == room.discardPile \o MapSeq(ClearFlags, playedCards)
    IN IF Len(room.deck) < HandSize /\ Len(pile) > 0
       THEN [room EXCEPT !.deck = @ \o Shuffle(pile, draws), !.discardPile = << >>]
       ELSE [room EXCEPT !.discardPile = pile]

\* The played cards leave the hand and the whole hand is replaced by the
\* next 8 cards of the deck: the room and the actor afterwards
Redraw(room, p, draws) ==
  LET playedCards == SelectSeq(p.hand, IsSelected)
      room1 == Recycle(room, playedCards, draws)
      newCards == MapSeq(ClearFlags, Taken(room1.deck, HandSize))
  IN [room |-> [room1 EXCEPT !.deck = Left(room1.deck, HandSize)],
      player |-> [p EXCEPT !.hand = newCards, !.selectedCards = << >>]]

\* The switch without the count: the turn changes hands, the counter stays
SwitchTurnKeepsCount(room) ==
  [room EXCEPT !.currentPlayer = (@ + 1) % 2]


\* The refusal switched off: no selection counts as invalid
InvalidHandNever(selectedCards) == FALSE

\* const validation = validateHand(selectedCards); if (!validation.valid)
InvalidHand(selectedCards) == ~validateHand(selectedCards).valid

\* Switch turns: the other index, one more turn
SwitchTurn(room) ==
  [room EXCEPT !.currentPlayer = 1 - @, !.turn = @ + 1]

hPlayHand(w, s, r, draws) ==
  IF ~MayAct(w, s, r) THEN Silent(w)
  ELSE
    LET room == w.rooms[r]
        playerIndex == FindIndex(w, r, s)
        c == room.players[playerIndex + 1]
        currentPlayer == w.objs[c]
    IN IF ~currentPlayer.inGame THEN Throw(w)
       ELSE IF Len(currentPlayer.selectedCards) = 0 THEN Silent(w)
       ELSE IF InvalidHand(currentPlayer.selectedCards)
       THEN Emit(w, <<ToSocket(s, "invalidHand")>>)
       \* room.players[1 - playerIndex] is undefined: reading it throws
       ELSE IF 2 - playerIndex > Len(room.players) THEN Throw(w)
       ELSE
         LET e == room.players[2 - playerIndex]
             handResult == evaluateHand(currentPlayer.selectedCards)
             res == Resolve(room.gameMode, w.objs[e], handResult)
             drawn == Redraw(room, currentPlayer, draws)
             room1 == [drawn.room EXCEPT
                         !.lastPlayedHand = [type |-> handResult.type,
                                             damage |-> res.finalDamage]]
         IN IF res.enemy.health <= 0
            THEN [w EXCEPT
                    !.objs = [@ EXCEPT ![e] = res.enemy, ![c] = drawn.player],
                    !.rooms[r] = [room1 EXCEPT !.gameState = "ended"],
                    !.out = <<ToRoom(r, "gameEnded")>>]
            ELSE [w EXCEPT
                    !.objs = [@ EXCEPT ![e] = [res.enemy EXCEPT !.discardsUsed = 0],
                                       ![c] = drawn.player],
                    !.rooms[r] = SwitchTurn(room1),
                    !.out = <<ToRoom(r, "handPlayed")>>]

\* The switch (handResult.type) of buildArmor
ArmorGained(type) ==
  CASE type = "High Card" -> 2
    [] type = "One Pair" -> 5
    [] type = "Two Pair" -> 8
    [] type = "Three of a Kind" -> 12
    [] type = "Straight" -> 15
    [] type = "Flush" -> 18
    [] type = "Full House" -> 22
    [] type = "Four of a Kind" -> 25
    [] type = "Straight Flush" -> 30
    [] type = "Royal Flush" -> 35
    [] OTHER -> 2

\* Math.min(50, currentPlayer.armor + armorGained)
BuiltArmor(armor, gained) == Min(MaxArmor, armor + gained)

hBuildArmor(w, s, r, draws) ==
  IF r \notin DOMAIN w.rooms \/ s \notin DOMAIN w.players THEN Silent(w)
  ELSE IF w.rooms[r].gameMode # TACTICAL \/ w.rooms[r].gameState # "playing"
  THEN Silent(w)
  ELSE
    LET room == w.rooms[r]
        playerIndex == FindIndex(w, r, s)
    IN IF playerIndex # room.currentPlayer
       THEN Emit(w, <<ToSocket(s, "error")>>)
       ELSE
         LET c == room.players[playerIndex + 1]
             currentPlayer == w.objs[c]
         IN IF ~currentPlayer.inGame THEN Throw(w)
            ELSE IF Len(currentPlayer.selectedCards) = 0
            THEN Emit(w, <<ToSocket(s, "error")>>)
            ELSE IF InvalidHand(currentPlayer.selectedCards)
            THEN Emit(w, <<ToSocket(s, "invalidHand")>>)
            \* room.players[room.currentPlayer] is undefined after the switch
            ELSE
              LET handResult == evaluateHand(currentPlayer.selectedCards)
                  armored == [currentPlayer EXCEPT
                                !.armor = BuiltArmor(@, ArmorGained(handResult.type))]
                  drawn == Redraw(room, armored, draws)
                  w1 == [w EXCEPT !.objs[c] = drawn.player,
                                  !.rooms[r] = SwitchTurn(drawn.room)]
              IN \* room.players[room.currentPlayer] is undefined after the
                 \* switch when the other seat is empty: the reset throws
                 IF 2 - playerIndex > Len(room.players) THEN Throw(w1)
                 ELSE [w1 EXCEPT
                         !.objs[room.players[2 - playerIndex]].discardsUsed = 0,
                         !.out = <<ToRoom(r, "armorBuilt")>>]

----------------------------------------------------------------------------
(* requestRematch, acceptRematch, declineRematch *)

hRequestRematch(w, s, r) ==
  IF r \notin DOMAIN w.rooms \/ s \notin DOMAIN w.players THEN Silent(w)
  ELSE Emit(w, <<ToOthers(r, "rematchRequested")>>)

hDeclineRematch(w, s, r) ==
  IF r \notin DOMAIN w.rooms \/ s \notin DOMAIN w.players THEN Silent(w)
  ELSE Emit(w, <<ToOthers(r, "rematchDeclined")>>)

hAcceptRematch(w, s, r, draws, first) ==
  IF r \notin DOMAIN w.rooms \/ s \notin DOMAIN w.players THEN Silent(w)
  ELSE
    LET room == w.rooms[r]
        deck == createDeck(draws)
        dealt == DealAll(w.objs, room.players, deck, room.gameMode)
        room1 == [room EXCEPT !.gameState = "playing", !.currentPlayer = first]
        room2 == [room1 EXCEPT
                    !.turn = 1,
                    !.deck = Slice(deck, 2 * HandSize, Len(deck)),
                    !.lastPlayedHand = NoHand,
                    !.discardPile = IF room.gameMode = RECYCLING THEN << >> ELSE @]
    IN \* room.players[room.currentPlayer].name throws when no player sits there
       IF first >= Len(room.players)
       THEN Throw([w EXCEPT !.objs = dealt, !.rooms[r] = room1])
       ELSE [w EXCEPT !.objs = dealt, !.rooms[r] = room2,
                      !.out = <<ToRoom(r, "rematchAccepted")>>]

----------------------------------------------------------------------------
(* setPlayerName, createRoom, joinRoom, leaveRoom, disconnect *)

\* Map.set and Map.delete
MapSet(map, key, value) ==
  [x \in DOMAIN map \cup {key} |-> IF x = key THEN value ELSE map[x]]

MapDelete(map, key) == [x \in DOMAIN map \ {key} |-> map[x]]

\* players.set(socket.id, { id: socket.id, name, roomId: null }): a new
\* object; the one the session had, if any, stays where rooms hold it
hSetPlayerName(w, s) ==
  [w EXCEPT !.objs = Append(@, NewPlayer(s)),
            !.players = MapSet(@, s, Len(w.objs) + 1),
            !.out = <<ToSocket(s, "playerSet")>>]

hCreateRoom(w, s, roomId, gameMode) ==
  IF s \notin DOMAIN w.players THEN Emit(w, <<ToSocket(s, "error")>>)
  ELSE
    LET player == w.players[s]
    IN [w EXCEPT !.rooms = MapSet(@, roomId, NewRoom(gameMode, player)),
                 !.objs[player].roomId = roomId,
                 !.out = <<ToSocket(s, "roomCreated"), ToAll("roomsUpdated")>>]

\* The handler without the refusal of a full room
hJoinRoomAnyCount(w, s, r) ==
  IF r \notin DOMAIN w.rooms THEN Emit(w, <<ToSocket(s, "error")>>)
  ELSE IF s \notin DOMAIN w.players THEN Emit(w, <<ToSocket(s, "error")>>)
  ELSE IF FindIndex(w, r, s) # -1 THEN Emit(w, <<ToSocket(s, "error")>>)
  ELSE
    LET player == w.players[s]
        joined == Append(w.rooms[r].players, player)
    IN [w EXCEPT !.rooms[r].players = joined,
                 !.objs[player].roomId = r,
                 !.timers = IF Len(joined) = 2 THEN Append(@, r) ELSE @,
                 !.out = <<ToRoom(r, "playerJoined"), ToAll("roomsUpdated")>>]

hJoinRoom(w, s, r) ==
  IF r \notin DOMAIN w.rooms THEN Emit(w, <<ToSocket(s, "error")>>)
  ELSE IF s \notin DOMAIN w.players THEN Emit(w, <<ToSocket(s, "error")>>)
  ELSE IF Len(w.rooms[r].players) >= 2 THEN Emit(w, <<ToSocket(s, "error")>>)
  ELSE IF FindIndex(w, r, s) # -1 THEN Emit(w, <<ToSocket(s, "error")>>)
  ELSE
    LET player == w.players[s]
        joined == Append(w.rooms[r].players, player)
    IN [w EXCEPT !.rooms[r].players = joined,
                 !.objs[player].roomId = r,
                 !.timers = IF Len(joined) = 2 THEN Append(@, r) ELSE @,
                 !.out = <<ToRoom(r, "playerJoined"), ToAll("roomsUpdated")>>]

\* room.players.filter((p) => p.id !== socket.id)
Others(w, ps, s) ==
  LET NotOf(o) == w.objs[o].id # s
  IN SelectSeq(ps, NotOf)

\* What leaveRoom and disconnect do to the room the session's object names
Depart(w, s) ==
  LET player == w.players[s]
      r == w.objs[player].roomId
      left == Others(w, w.rooms[r].players, s)
  IN IF Len(left) = 0
     THEN [w EXCEPT !.rooms = MapDelete(@, r), !.out = <<ToAll("roomsUpdated")>>]
     ELSE [w EXCEPT !.rooms[r].players = left,
                    !.out = <<ToRoom(r, "playerLeft"), ToAll("roomsUpdated")>>]

\* player && player.roomId, and the room is there
InRoom(w, s) ==
  /\ s \in DOMAIN w.players
  /\ w.objs[w.players[s]].roomId # Null
  /\ w.objs[w.players[s]].roomId \in DOMAIN w.rooms

hLeaveRoom(w, s) ==
  IF ~InRoom(w, s) THEN Silent(w)
  ELSE [Depart(w, s) EXCEPT !.objs[w.players[s]].roomId = Null]

hDisconnect(w, s) ==
  LET w1 == IF InRoom(w, s) THEN Depart(w, s) ELSE Silent(w)
  IN [w1 EXCEPT !.players = MapDelete(@, s)]

----------------------------------------------------------------------------
(* Actions: one per inbound event, and the start timer firing *)

Sessions == {"s1", "s2", "s3"}
RoomIds == {"r1"}

Apply(w) ==
  /\ rooms' = w.rooms
  /\ players' = w.players
  /\ objs' = w.objs
  /\ timers' = w.timers
  /\ out' = w.out
  /\ fault' = w.fault

Commit(w) == Apply(w) /\ UNCHANGED <<sockets, issued>>

\* Math.floor(Math.random() * 2)
Coin == {0, 1}

\* setTimeout(() => startGame(roomId), 2000) coming due
startGame ==
  /\ ~fault
  /\ timers # << >>
  /\ \E draws \in Streams, first \in Coin :
       Commit(hStartGame([World EXCEPT !.timers = Tail(timers)],
                         Head(timers), draws, first))

\* Games are followed while the room's turn counter is below maxTurn: past
\* it no client sends a turn event
Below(r, maxTurn) == r \in DOMAIN rooms => rooms[r].turn < maxTurn

selectCard(s, r, picks, maxTurn) ==
  /\ ~fault /\ s \in sockets /\ Below(r, maxTurn)
  /\ \E cardId \in picks : Commit(hSelectCard(World, s, r, cardId))

markForDiscard(s, r, picks, maxTurn) ==
  /\ ~fault /\ s \in sockets /\ Below(r, maxTurn)
  /\ \E cardId \in picks : Commit(hMarkForDiscard(World, s, r, cardId))

discardCards(s, r, maxTurn) ==
  /\ ~fault /\ s \in sockets /\ Below(r, maxTurn)
  /\ Commit(hDiscardCards(World, s, r))

makePrediction(s, r, predictions, maxTurn) ==
  /\ ~fault /\ s \in sockets /\ Below(r, maxTurn)
  /\ \E prediction \in predictions : Commit(hMakePrediction(World, s, r, prediction))

playHand(s, r, maxTurn) ==
  /\ ~fault /\ s \in sockets /\ Below(r, maxTurn)
  /\ \E draws \in Streams : Commit(hPlayHand(World, s, r, draws))

buildArmor(s, r, maxTurn) ==
  /\ ~fault /\ s \in sockets /\ Below(r, maxTurn)
  /\ \E draws \in Streams : Commit(hBuildArmor(World, s, r, draws))

requestRematch(s, r) == ~fault /\ s \in sockets /\ Commit(hRequestRematch(World, s, r))

declineRematch(s, r) == ~fault /\ s \in sockets /\ Commit(hDeclineRematch(World, s, r))

acceptRematch(s, r) ==
  /\ ~fault /\ s \in sockets
  /\ \E draws \in Streams, first \in Coin :
       Commit(hAcceptRematch(World, s, r, draws, first))

\* A session is followed while fewer than maxObjects player objects exist
setPlayerName(s, maxObjects) ==
  /\ ~fault /\ s \in sockets
  /\ Len(objs) < maxObjects
  /\ Commit(hSetPlayerName(World, s))

\* The ids uuidv4() hands out, in order
AllRoomIds == <<"r1", "r2", "r3", "r4">>

createRoom(s, modes, maxRooms) ==
  /\ ~fault /\ s \in sockets
  /\ issued < maxRooms /\ issued < Len(AllRoomIds)
  /\ \E gameMode \in modes :
       Apply(hCreateRoom(World, s, AllRoomIds[issued + 1], gameMode))
  /\ issued' = issued + 1
  /\ UNCHANGED sockets

\* Joins are followed while fewer than maxTimers start timers are pending
joinRoom(s, r, maxTimers) ==
  /\ ~fault /\ s \in sockets
  /\ Len(timers) < maxTimers
  /\ Commit(hJoinRoom(World, s, r))

leaveRoom(s) == ~fault /\ s \in sockets /\ Commit(hLeaveRoom(World, s))

disconnect(s) ==
  /\ ~fault /\ s \in sockets
  /\ Apply(hDisconnect(World, s))
  /\ sockets' = sockets \ {s}
  /\ UNCHANGED issued

----------------------------------------------------------------------------
(* Inputs and bounds *)

NoCard == 0 - 1        \* a cardId no card carries

\* The card ids a client sends: those of the first `width` cards it holds,
\* and one that matches nothing
Picks(s, width) ==
  IF s \notin DOMAIN players THEN {NoCard}
  ELSE LET hand == objs[players[s]].hand
       IN {hand[i].id : i \in 1 .. Min(width, Len(hand))} \cup {NoCard}

\* The predictions a client sends: a right or wrong category, "", null
PredictionInputs == {"High Card", "", Null}

\* The game events of the sessions `among`, with the clients' card picks
\* limited to the first selWidth (selectCard) and markWidth (markForDiscard)
\* cards of the sender's hand
GameNext(among, selWidth, markWidth, maxTurn) ==
  \E s \in among, r \in RoomIds :
    \/ selectCard(s, r, Picks(s, selWidth), maxTurn)
    \/ markForDiscard(s, r, Picks(s, markWidth), maxTurn)
    \/ discardCards(s, r, maxTurn)
    \/ makePrediction(s, r, PredictionInputs, maxTurn)
    \/ playHand(s, r, maxTurn)
    \/ buildArmor(s, r, maxTurn)
    \/ acceptRematch(s, r)

\* Two named sessions sit in room r1 of the given mode, the second has just
\* joined and the start timer is pending; a third named session is in no room.
Joined(mode) ==
  [players |-> ("s1" :> 1) @@ ("s2" :> 2) @@ ("s3" :> 3),
   objs |-> <<[NewPlayer("s1") EXCEPT !.roomId = "r1"],
              [NewPlayer("s2") EXCEPT !.roomId = "r1"],
              NewPlayer("s3")>>,
   rooms |-> ("r1" :> [NewRoom(mode, 1) EXCEPT !.players = <<1, 2>>]),
   timers |-> <<"r1">>,
   out |-> <<ToRoom("r1", "playerJoined"), ToAll("roomsUpdated")>>,
   fault |-> FALSE]

Start(w) ==
  /\ rooms = w.rooms
  /\ players = w.players
  /\ objs = w.objs
  /\ timers = w.timers
  /\ out = w.out
  /\ fault = w.fault
  /\ sockets = Sessions
  /\ issued = 1

JoinedInit(modes) == \E mode \in modes : Start(Joined(mode))

\* The same room once its start timer has fired
StartedInit(modes) ==
  \E mode \in modes, draws \in Streams, first \in Coin :
    Start(hStartGame([Joined(mode) EXCEPT !.timers = << >>], "r1", draws, first))

\* The server with three connections open, two of which have set their
\* names, the second just now; no room exists yet
Named ==
  [players |-> ("s1" :> 1) @@ ("s2" :> 2),
   objs |-> <<NewPlayer("s1"), NewPlayer("s2")>>,
   rooms |-> [x \in {} |-> 0],
   timers |-> << >>,
   out |-> <<ToSocket("s2", "playerSet")>>,
   fault |-> FALSE]

LobbyInit ==
  /\ rooms = Named.rooms
  /\ players = Named.players
  /\ objs = Named.objs
  /\ timers = Named.timers
  /\ out = Named.out
  /\ fault = Named.fault
  /\ sockets = Sessions
  /\ issued = 0

RoomsUpTo(maxRooms) == {AllRoomIds[k] : k \in 1 .. Min(maxRooms, Len(AllRoomIds))}

\* The lobby events; the start timers they set stay pending
LobbyNext(modes, maxObjects, maxRooms, maxTimers) ==
  \E s \in Sessions, r \in RoomsUpTo(maxRooms) :
    \/ setPlayerName(s, maxObjects)
    \/ createRoom(s, modes, maxRooms)
    \/ joinRoom(s, r, maxTimers)
    \/ leaveRoom(s)
    \/ disconnect(s)

\* A room's start timer, and the players who leave it, come back or are
\* replaced
LeaveNext(maxTimers) ==
  \/ startGame
  \/ \E s \in Sessions, r \in RoomIds :
       \/ joinRoom(s, r, maxTimers)
       \/ leaveRoom(s)
       \/ disconnect(s)

----------------------------------------------------------------------------
(* Specifications *)

\* The lobby of three connections
MaxObjects == 3
MaxRooms == 2
MaxTimers == 2

SpecLobby ==
  LobbyInit /\ [][LobbyNext({TACTICAL}, MaxObjects, MaxRooms, MaxTimers)]_vars

\* A full room of any mode from the join on, with departures and new joins
LeaveTimers == 2

SpecLeave == JoinedInit(GAME_MODES) /\ [][LeaveNext(LeaveTimers)]_vars

\* A Tactical game from its start, hands wide enough for four of a kind
TacSel == 4
TacMark == 1
TacTurns == 2

SpecTactical ==
  StartedInit({TACTICAL}) /\ [][GameNext(Sessions, TacSel, TacMark, TacTurns)]_vars

\* A room of any mode from the join on: the start timer is still pending
JoinSel == 1
JoinMark == 1
JoinTurns == 2

RematchTalk == \E s \in Sessions, r \in RoomIds :
                 requestRematch(s, r) \/ declineRematch(s, r)

SpecJoined ==
  /\ JoinedInit(GAME_MODES)
  /\ [][\/ startGame
        \/ GameNext(Sessions, JoinSel, JoinMark, JoinTurns)
        \/ RematchTalk]_vars

\* A Recycling game from its start under card events alone
CardSel == 2
CardMark == 1
CardTurns == 3

CardNext(selWidth, markWidth, maxTurn) ==
  \E s \in {"s1", "s2"}, r \in RoomIds :
    \/ selectCard(s, r, Picks(s, selWidth), maxTurn)
    \/ markForDiscard(s, r, Picks(s, markWidth), maxTurn)
    \/ discardCards(s, r, maxTurn)
    \/ playHand(s, r, maxTurn)

SpecCards ==
  StartedInit({RECYCLING}) /\ [][CardNext(CardSel, CardMark, CardTurns)]_vars

\* A Classic game in which the current player selects among all eight
\* cards held and plays, from each of the first NumHands shuffles
NumHands == 3
HandSel == 8
HandTurns == 3

HandsInit ==
  \E k \in 1 .. Min(NumHands, Len(HandDraws)), first \in Coin :
    Start(hStartGame([Joined(CLASSIC) EXCEPT !.timers = << >>],
                     "r1", HandDraws[k], first))

HandsNext(selWidth, maxTurn) ==
  \E s \in {"s1", "s2"}, r \in RoomIds :
    \/ selectCard(s, r, Picks(s, selWidth), maxTurn)
    \/ playHand(s, r, maxTurn)

SpecHands == HandsInit /\ [][HandsNext(HandSel, HandTurns)]_vars

\* A Recycling game of selections and plays, long enough for the deck to
\* run short
PileSel == 2
PileTurns == 7

SpecPile ==
  StartedInit({RECYCLING}) /\ [][HandsNext(PileSel, PileTurns)]_vars

\* A game of any mode in which each player selects among the first cards
\* held and plays, until the draw pile is used up
DrySel == 1
DryTurns == 9

SpecDry ==
  StartedInit(GAME_MODES) /\ [][HandsNext(DrySel, DryTurns)]_vars

\* A Tactical game of the two players' turn-ending events, three turns long
DuelSel == 4
DuelTurns == 3

DuelNext(selWidth, maxTurn) ==
  \E s \in {"s1", "s2"}, r \in RoomIds :
    \/ selectCard(s, r, Picks(s, selWidth), maxTurn)
    \/ makePrediction(s, r, PredictionInputs, maxTurn)
    \/ playHand(s, r, maxTurn)
    \/ buildArmor(s, r, maxTurn)

SpecDuel ==
  StartedInit({TACTICAL}) /\ [][DuelNext(DuelSel, DuelTurns)]_vars

\* A Tactical game of the two players with discards and rematches, three
\* turns long
RoundSel == 1
RoundMark == 1
RoundTurns == 3

RoundNext(selWidth, markWidth, maxTurn) ==
  \E s \in {"s1", "s2"}, r \in RoomIds :
    \/ selectCard(s, r, Picks(s, selWidth), maxTurn)
    \/ markForDiscard(s, r, Picks(s, markWidth), maxTurn)
    \/ discardCards(s, r, maxTurn)
    \/ playHand(s, r, maxTurn)
    \/ buildArmor(s, r, maxTurn)
    \/ acceptRematch(s, r)

SpecRounds ==
  StartedInit({TACTICAL}) /\ [][RoundNext(RoundSel, RoundMark, RoundTurns)]_vars

\* A long Classic game of single cards under card events alone
LongSel == 1
LongMark == 1
LongTurns == 5

SpecLong ==
  StartedInit({CLASSIC}) /\ [][CardNext(LongSel, LongMark, LongTurns)]_vars

----------------------------------------------------------------------------
(* What an event that arrives in the current state does *)

\* Senders: the named sessions and a connection that never set a name
AnySession == Sessions \cup {"s0"}

IdsOf(hand) == {hand[k].id : k \in 1 .. Len(hand)}

\* The card ids worth sending: every card held in the room, and none
CardInputs(r) ==
  UNION {IdsOf(objs[rooms[r].players[i]].hand) : i \in 1 .. Len(rooms[r].players)}
  \cup {NoCard}

Sent(w, ev) == \E i \in 1 .. Len(w.out) : w.out[i].ev = ev

IsCurrent(s, r) == FindIndex(World, r, s) = rooms[r].currentPlayer

\* The room and every player object are as they were
Untouched(w) ==
  /\ w.rooms = rooms
  /\ w.objs = objs
  /\ w.players = players
  /\ w.timers = timers
  /\ w.fault = fault

----------------------------------------------------------------------------
(* Claims *)

\* The hands of the room's players, its deck and its discard pile, end to end
CardsOf(r) ==
  LET room == rooms[r]
      RECURSIVE hands(_)
      hands(i) == IF i > Len(room.players) THEN << >>
                  ELSE objs[room.players[i]].hand \o hands(i + 1)
  IN MapSeq(IdOf, hands(1) \o room.deck \o room.discardPile)

\* C1: in a started Recycling room every one of the 52 cards is in exactly
\* one of the two hands, the draw pile and the discard pile.
C1_CardsConserved ==
  \A r \in DOMAIN rooms :
    (rooms[r].gameMode = RECYCLING /\ rooms[r].gameState # "waiting") =>
      \A c \in CardIds :
        Cardinality({i \in 1 .. Len(CardsOf(r)) : CardsOf(r)[i] = c}) = 1

SameTurn(w, r) ==
  /\ w.rooms[r].currentPlayer = rooms[r].currentPlayer
  /\ w.rooms[r].turn = rooms[r].turn

NextTurn(w, r) ==
  /\ w.rooms[r].currentPlayer = 1 - rooms[r].currentPlayer
  /\ w.rooms[r].turn = rooms[r].turn + 1

\* selectCard, markForDiscard and discardCards never move the turn
CardEventsKeepTurn(r, s) ==
  /\ \A cardId \in CardInputs(r) :
       /\ SameTurn(hSelectCard(World, s, r, cardId), r)
       /\ SameTurn(hMarkForDiscard(World, s, r, cardId), r)
  /\ SameTurn(hDiscardCards(World, s, r), r)

\* C2 as the specification words it: every playHand and buildArmor that
\* passes its guards flips currentPlayer and adds one to turn, and the card
\* events leave both alone.
C2_EveryPlayEndsTurn ==
  ~fault =>
    \A r \in DOMAIN rooms, s \in AnySession :
      /\ \A draws \in Streams :
           /\ LET w == hPlayHand(World, s, r, draws)
              IN (Sent(w, "handPlayed") \/ Sent(w, "gameEnded")) => NextTurn(w, r)
           /\ LET w == hBuildArmor(World, s, r, draws)
              IN Sent(w, "armorBuilt") => NextTurn(w, r)
      /\ CardEventsKeepTurn(r, s)

\* C2: every playHand that passes its guards and leaves the opponent alive,
\* and every buildArmor that passes its guards, flips currentPlayer and adds
\* one to turn; a playHand that ends the game leaves both as they were, and
\* so do selectCard, markForDiscard and discardCards.
C2_TurnEndsUnlessGameEnds ==
  ~fault =>
    \A r \in DOMAIN rooms, s \in AnySession :
      /\ \A draws \in Streams :
           /\ LET w == hPlayHand(World, s, r, draws)
              IN /\ Sent(w, "handPlayed") => NextTurn(w, r)
                 /\ Sent(w, "gameEnded") => SameTurn(w, r)
           /\ LET w == hBuildArmor(World, s, r, draws)
              IN Sent(w, "armorBuilt") => NextTurn(w, r)
      /\ CardEventsKeepTurn(r, s)

C2_Witness ==
  \E r \in DOMAIN rooms :
    /\ rooms[r].turn = 2
    /\ out \in {<<ToRoom(r, "handPlayed")>>, <<ToRoom(r, "armorBuilt")>>}

\* C3: selectCard, markForDiscard, discardCards, playHand and buildArmor sent
\* by a session that is not the current player's, or while the room is not
\* playing, change nothing of the room or of any player.
C3_OutOfTurnIgnored ==
  ~fault =>
    \A r \in DOMAIN rooms, s \in AnySession :
      (rooms[r].gameState # "playing" \/ ~IsCurrent(s, r)) =>
        /\ \A cardId \in CardInputs(r) :
             /\ Untouched(hSelectCard(World, s, r, cardId))
             /\ Untouched(hMarkForDiscard(World, s, r, cardId))
        /\ Untouched(hDiscardCards(World, s, r))
        /\ \A draws \in Streams :
             /\ Untouched(hPlayHand(World, s, r, draws))
             /\ Untouched(hBuildArmor(World, s, r, draws))

\* A buildArmor of the player whose turn it is not was just refused
C3_Witness ==
  \E r \in DOMAIN rooms, s \in Sessions :
    /\ rooms[r].gameState = "playing"
    /\ FindIndex(World, r, s) = 1 - rooms[r].currentPlayer
    /\ out = <<ToSocket(s, "error")>>

KeepsGameState(w, r) == w.rooms[r].gameState = rooms[r].gameState

Moves(w, r, from, to) ==
  KeepsGameState(w, r) \/ (rooms[r].gameState = from /\ w.rooms[r].gameState = to)

\* C4: gameState only ever goes from waiting to playing by the start, from
\* playing to ended by a playHand that kills, and from ended to playing by
\* acceptRematch; no other event, buildArmor included, changes it.
C4_GameStateChanges ==
  ~fault =>
    \A r \in DOMAIN rooms, s \in AnySession :
      /\ \A draws \in Streams :
           /\ \A first \in Coin :
                /\ (timers # << >> /\ Head(timers) = r) =>
                     Moves(hStartGame(World, r, draws, first), r, "waiting", "playing")
                /\ Moves(hAcceptRematch(World, s, r, draws, first), r, "ended", "playing")
           /\ Moves(hPlayHand(World, s, r, draws), r, "playing", "ended")
           /\ KeepsGameState(hBuildArmor(World, s, r, draws), r)
      /\ \A cardId \in CardInputs(r) :
           /\ KeepsGameState(hSelectCard(World, s, r, cardId), r)
           /\ KeepsGameState(hMarkForDiscard(World, s, r, cardId), r)
      /\ KeepsGameState(hDiscardCards(World, s, r), r)
      /\ \A prediction \in PredictionInputs :
           KeepsGameState(hMakePrediction(World, s, r, prediction), r)
      /\ KeepsGameState(hRequestRematch(World, s, r), r)
      /\ KeepsGameState(hDeclineRematch(World, s, r), r)

Categories ==
  {"High Card", "One Pair", "Two Pair", "Three of a Kind", "Straight", "Flush",
   "Full House", "Four of a Kind", "Straight Flush", "Royal Flush"}

\* C5: a playHand that passes its guards in a Tactical room, against an
\* opponent with armor a, health h and prediction p, with raw damage d:
\* d' is d \div 4 when p is the category played, (5 * d) \div 4 when p is
\* another category and d when p is null; the armor absorbs min(a, d'),
\* leaving a - absorbed, the health becomes max(0, h - (d' - absorbed)),
\* and the prediction is null afterwards, whether or not the game ended.
C5_DamageResolution ==
  ~fault =>
    \A r \in DOMAIN rooms, s \in AnySession, draws \in Streams :
      LET w == hPlayHand(World, s, r, draws)
      IN (rooms[r].gameMode = TACTICAL
            /\ (Sent(w, "handPlayed") \/ Sent(w, "gameEnded"))) =>
           LET i == FindIndex(World, r, s)
               actor == objs[rooms[r].players[i + 1]]
               e == rooms[r].players[2 - i]
               played == evaluateHand(actor.selectedCards)
               d == played.damage
               p == objs[e].prediction
               a == objs[e].armor
               h == objs[e].health
               adjusted == IF p = Null THEN d
                           ELSE IF p = played.type THEN d \div 4
                           ELSE (5 * d) \div 4
               absorbed == IF a < adjusted THEN a ELSE adjusted
               rest == h - (adjusted - absorbed)
           IN p \in Categories \cup {Null} =>
                /\ w.objs[e].armor = a - absorbed
                /\ w.objs[e].health = IF rest < 0 THEN 0 ELSE rest
                /\ w.objs[e].prediction = Null

\* A single card was played into the opponent's correct prediction and
\* armor of 2: of the 14 or 15 points of a king or an ace 3 were left by the
\* prediction, 2 went into the armor and 1 reached the health
C5_Witness ==
  \E r \in DOMAIN rooms :
    /\ rooms[r].gameMode = TACTICAL
    /\ out = <<ToRoom(r, "handPlayed")>>
    /\ rooms[r].lastPlayedHand = [type |-> "High Card", damage |-> 1]
    /\ LET e == objs[rooms[r].players[rooms[r].currentPlayer + 1]]
       IN e.prediction = Null /\ e.armor = 0 /\ e.health = e.maxHealth - 1

PlayersOf(r) == {rooms[r].players[i] : i \in 1 .. Len(rooms[r].players)}

\* C6: while a room is playing each player's hand holds exactly 8 cards:
\* a discard draws as many cards as it removed, and a playHand or buildArmor
\* leaves the actor with 8 fresh cards, neither selected nor marked.
C6_HandsOfEight ==
  \A r \in DOMAIN rooms :
    rooms[r].gameState = "playing" =>
      \A o \in PlayersOf(r) : Len(objs[o].hand) = HandSize

WithMarks(o, M) ==
  [World EXCEPT !.objs[o].hand =
     [k \in 1 .. Len(objs[o].hand) |->
        [objs[o].hand[k] EXCEPT !.markedForDiscard = k \in M]]]


\* What discardCards of the current player s does, however the hand is marked
DiscardEffect(r, s) ==
  LET o == rooms[r].players[rooms[r].currentPlayer + 1]
      hand == objs[o].hand
  IN \A M \in SUBSET (1 .. Len(hand)) :
       LET n == Cardinality(M)
           before == WithMarks(o, M)
           w == hDiscardCards(before, s, r)
       IN IF 1 <= n /\ n <= 3 /\ objs[o].discardsUsed < objs[o].maxDiscards
          THEN /\ \A k \in M : hand[k].id \notin IdsOf(w.objs[o].hand)
               /\ \A k \in (1 .. Len(hand)) \ M : hand[k].id \in IdsOf(w.objs[o].hand)
               /\ w.objs[o].discardsUsed = objs[o].discardsUsed + 1
               /\ \A q \in PlayersOf(r) :
                    /\ w.objs[q].health = objs[q].health
                    /\ w.objs[q].armor = objs[q].armor
               /\ KeepsGameState(w, r)
               /\ SameTurn(w, r)
          ELSE w.rooms = before.rooms /\ w.objs = before.objs

\* The players of r whose count of discards the handler set back to 0
ResetBy(w, r) ==
  {i \in 1 .. Len(rooms[r].players) :
     /\ objs[rooms[r].players[i]].discardsUsed > 0
     /\ w.objs[rooms[r].players[i]].discardsUsed = 0}

\* A turn-ending event resets the count of the player it hands the turn to
\* and of nobody else
TurnEndResets(w, r) ==
  IF Sent(w, "handPlayed") \/ Sent(w, "armorBuilt")
  THEN /\ w.objs[w.rooms[r].players[w.rooms[r].currentPlayer + 1]].discardsUsed = 0
       /\ ResetBy(w, r) \subseteq {w.rooms[r].currentPlayer + 1}
  ELSE ResetBy(w, r) = {}

\* Every event but acceptRematch, against the reset rule
ResetsInPlay(r, s) ==
  /\ \A draws \in Streams :
       /\ TurnEndResets(hPlayHand(World, s, r, draws), r)
       /\ TurnEndResets(hBuildArmor(World, s, r, draws), r)
  /\ \A cardId \in CardInputs(r) :
       /\ ResetBy(hSelectCard(World, s, r, cardId), r) = {}
       /\ ResetBy(hMarkForDiscard(World, s, r, cardId), r) = {}
  /\ ResetBy(hDiscardCards(World, s, r), r) = {}
  /\ \A prediction \in PredictionInputs :
       ResetBy(hMakePrediction(World, s, r, prediction), r) = {}
  /\ ResetBy(hRequestRematch(World, s, r), r) = {}
  /\ ResetBy(hDeclineRematch(World, s, r), r) = {}

C9_InvalidHandRefused ==
  ~fault =>
    \A r \in DOMAIN rooms, s \in AnySession :
      (rooms[r].gameState = "playing" /\ IsCurrent(s, r)) =>
        LET selection == objs[rooms[r].players[rooms[r].currentPlayer + 1]].selectedCards
            notice == <<[to |-> s, ev |-> "invalidHand", ch |-> "socket"]>>
        IN (Len(selection) > 0 /\ ~validateHand(selection).valid) =>
             \A draws \in Streams :
               /\ Untouched(hPlayHand(World, s, r, draws))
               /\ hPlayHand(World, s, r, draws).out = notice
               /\ Untouched(hBuildArmor(World, s, r, draws))
               /\ hBuildArmor(World, s, r, draws).out = notice

\* The current player holds a selection that fails validation and was just
\* told so
C9_Witness ==
  \E r \in DOMAIN rooms, s \in Sessions :
    /\ rooms[r].gameState = "playing"
    /\ IsCurrent(s, r)
    /\ Len(objs[rooms[r].players[rooms[r].currentPlayer + 1]].selectedCards) > 1
    /\ out = <<ToSocket(s, "invalidHand")>>

\* The fields of the player objects other than prediction
SamePlayersButPrediction(w) ==
  /\ DOMAIN w.objs = DOMAIN objs
  /\ \A o \in DOMAIN objs : [w.objs[o] EXCEPT !.prediction = objs[o].prediction] = objs[o]

\* C10: makePrediction stores the prediction on the sender's record alone,
\* and only when the sender is a player of that Tactical room other than the
\* current one; from the current player it changes nothing and answers with
\* an error to the sender alone; in a room of another mode it changes nothing.
C10_PredictionOnSenderOnly ==
  ~fault =>
    \A r \in DOMAIN rooms, s \in AnySession, prediction \in PredictionInputs :
      LET w == hMakePrediction(World, s, r, prediction)
          i == FindIndex(World, r, s)
          mayPredict == /\ rooms[r].gameMode = TACTICAL
                        /\ i # -1
                        /\ i # rooms[r].currentPlayer
      IN /\ w.rooms = rooms /\ w.players = players /\ w.timers = timers
         /\ SamePlayersButPrediction(w)
         /\ \A o \in DOMAIN objs :
              w.objs[o].prediction # objs[o].prediction =>
                (mayPredict /\ o = rooms[r].players[i + 1] /\ objs[o].id = s)
         /\ mayPredict => w.objs[rooms[r].players[i + 1]].prediction = prediction
         /\ (rooms[r].gameMode = TACTICAL /\ i = rooms[r].currentPlayer) =>
              /\ Untouched(w)
              /\ w.out = <<[to |-> s, ev |-> "error", ch |-> "socket"]>>
         /\ rooms[r].gameMode # TACTICAL => (Untouched(w) /\ w.out = << >>)

\* The player whose turn it is not has just stored a prediction
C10_Witness ==
  \E r \in DOMAIN rooms :
    /\ rooms[r].gameMode = TACTICAL
    /\ out = <<ToRoom(r, "predictionMade")>>
    /\ objs[rooms[r].players[2 - rooms[r].currentPlayer]].prediction = "High Card"
    /\ objs[rooms[r].players[rooms[r].currentPlayer + 1]].prediction = Null

\* C11: the start timer and acceptRematch deal a game only in a room of
\* exactly two players; with any other number of players they leave the
\* room and every player as they were.
C11_DealsNeedTwoPlayers ==
  ~fault =>
    \A r \in DOMAIN rooms, s \in AnySession, draws \in Streams, first \in Coin :
      Len(rooms[r].players) # 2 =>
        /\ Untouched(hStartGame(World, r, draws, first))
        /\ Untouched(hAcceptRematch(World, s, r, draws, first))

\* What a deal leaves in room r, the deck having been shuffled by draws
FreshDeal(w, r, draws) ==
  LET room == w.rooms[r]
      p0 == w.objs[room.players[1]]
      p1 == w.objs[room.players[2]]
      deck == createDeck(draws)
      Fresh(p) == /\ p.health = StartingHealth(room.gameMode)
                  /\ p.maxHealth = StartingHealth(room.gameMode)
                  /\ p.discardsUsed = 0
                  /\ room.gameMode = TACTICAL => (p.armor = 0 /\ p.prediction = Null)
  IN /\ {deck[k].id : k \in 1 .. Len(deck)} = CardIds
     /\ Len(deck) = 52
     /\ p0.hand = [k \in 1 .. 8 |-> deck[k]]
     /\ p1.hand = [k \in 1 .. 8 |-> deck[8 + k]]
     /\ room.deck = [k \in 1 .. 36 |-> deck[16 + k]]
     /\ Fresh(p0) /\ Fresh(p1)
     /\ room.turn = 1
     /\ room.lastPlayedHand = NoHand
     /\ room.gameState = "playing"
     /\ room.gameMode = RECYCLING => room.discardPile = << >>

\* C12: right after every start and every acceptRematch that deals, player
\* 0 holds positions 0-7 and player 1 positions 8-15 of one fresh deck of
\* the 52 cards, the draw pile is the other 36 in order, both players have
\* health = maxHealth = the mode's starting health and discardsUsed = 0,
\* turn = 1, lastPlayedHand is null, gameState is playing, in Tactical armor
\* is 0 and prediction null, in Recycling the discard pile is empty.
C12_FreshDealAfterStart ==
  ~fault =>
    \A r \in DOMAIN rooms, s \in AnySession, draws \in Streams, first \in Coin :
      /\ (timers # << >> /\ Head(timers) = r) =>
           LET w == hStartGame(World, r, draws, first)
           IN Sent(w, "gameStarted") => FreshDeal(w, r, draws)
      /\ LET w == hAcceptRematch(World, s, r, draws, first)
         IN Sent(w, "rematchAccepted") => FreshDeal(w, r, draws)

\* The session ids of the players in room r's list, in order
SessionsIn(r) == [i \in 1 .. Len(rooms[r].players) |-> objs[rooms[r].players[i]].id]

\* C13: joinRoom on a room that does not exist, on a room of two players,
\* or by a session already in the room's list changes nothing and sends an
\* error to the joining session alone; and no room ever lists more than two
\* players or one session twice.
C13_JoinRefusals ==
  ~fault =>
    /\ \A s \in AnySession, r \in RoomsUpTo(MaxRooms) :
         LET w == hJoinRoom(World, s, r)
             refused == \/ r \notin DOMAIN rooms
                        \/ Len(rooms[r].players) >= 2
                        \/ \E i \in 1 .. Len(rooms[r].players) : SessionsIn(r)[i] = s
         IN refused =>
              /\ Untouched(w)
              /\ w.out = <<[to |-> s, ev |-> "error", ch |-> "socket"]>>
    /\ \A r \in DOMAIN rooms :
         /\ Len(rooms[r].players) <= 2
         /\ \A i, k \in 1 .. Len(rooms[r].players) :
              SessionsIn(r)[i] = SessionsIn(r)[k] => i = k

\* A named session outside a room of two was just refused
C13_Witness ==
  \E r \in DOMAIN rooms, s \in DOMAIN players :
    /\ Len(rooms[r].players) = 2
    /\ \A i \in 1 .. 2 : SessionsIn(r)[i] # s
    /\ objs[players[s]].roomId = Null
    /\ out = <<ToSocket(s, "error")>>

\* C14: a disconnect leaves the session neither in the session table nor in
\* any room's player list; and no room is without players or lists a
\* session that has disconnected.
C14_NoTraceOfDisconnected ==
  ~fault =>
    /\ \A s \in sockets :
         LET w == hDisconnect(World, s)
         IN /\ s \notin DOMAIN w.players
            /\ \A r \in DOMAIN w.rooms : FindIndex(w, r, s) = -1
    /\ \A r \in DOMAIN rooms :
         /\ Len(rooms[r].players) > 0
         /\ \A i \in 1 .. Len(rooms[r].players) : SessionsIn(r)[i] \in sockets

\* The legal plays and their categories, on a set S of cards
RanksIn(S) == {RankOf(c) : c \in S}
OfRank(S, k) == Cardinality({c \in S : RankOf(c) = k})
SameRank(S) == Cardinality(RanksIn(S)) = 1
OneSuit(S) == Cardinality({SuitOf(c) : c \in S}) = 1
TwoPairs(S) == \E a, b \in RanksIn(S) : a # b /\ OfRank(S, a) = 2 /\ OfRank(S, b) = 2
ThreeAndTwo(S) == \E a, b \in RanksIn(S) : a # b /\ OfRank(S, a) = 3 /\ OfRank(S, b) = 2
RunOfFive(S) ==
  \/ RanksIn(S) = 1 .. 5
  \/ \E lo \in 1 .. 9 : RanksIn(S) = lo .. (lo + 4)
RoyalRun(S) == RanksIn(S) = {1, 10, 11, 12, 13} /\ OneSuit(S)

LegalPlay(S) ==
  LET n == Cardinality(S)
  IN \/ n = 1
     \/ n = 2 /\ SameRank(S)
     \/ n = 3 /\ SameRank(S)
     \/ n = 4 /\ (SameRank(S) \/ TwoPairs(S))
     \/ n = 5 /\ (RoyalRun(S) \/ ThreeAndTwo(S) \/ OneSuit(S) \/ RunOfFive(S))

HighestCategory(S) ==
  LET n == Cardinality(S)
  IN IF n = 1 THEN "High Card"
     ELSE IF n = 2 THEN "One Pair"
     ELSE IF n = 3 THEN "Three of a Kind"
     ELSE IF n = 4 THEN (IF SameRank(S) THEN "Four of a Kind" ELSE "Two Pair")
     ELSE IF RoyalRun(S) THEN "Royal Flush"
     ELSE IF OneSuit(S) /\ RunOfFive(S) THEN "Straight Flush"
     ELSE IF ThreeAndTwo(S) THEN "Full House"
     ELSE IF OneSuit(S) THEN "Flush"
     ELSE "Straight"

CategoryBase ==
  ("Royal Flush" :> 50) @@ ("Straight Flush" :> 40) @@ ("Four of a Kind" :> 35)
  @@ ("Full House" :> 30) @@ ("Flush" :> 25) @@ ("Straight" :> 20)
  @@ ("Three of a Kind" :> 15) @@ ("Two Pair" :> 10) @@ ("One Pair" :> 5)
  @@ ("High Card" :> 1)

RECURSIVE FaceSum(_)
FaceSum(S) ==
  IF S = {} THEN 0
  ELSE LET c == CHOOSE x \in S : TRUE
       IN (IF RankOf(c) = 1 THEN 14 ELSE RankOf(c)) + FaceSum(S \ {c})

CardSet(sel) == {sel[i] : i \in 1 .. Len(sel)}

Scored(S) ==
  [type |-> HighestCategory(S),
   damage |-> CategoryBase[HighestCategory(S)] + FaceSum(S)]

\* The selections classify is given: what each dealt player has selected
Selections ==
  {objs[o].selectedCards :
     o \in {x \in 1 .. Len(objs) : objs[x].inGame /\ Len(objs[x].selectedCards) <= 6}}

\* C15 as stated: every selection of 0 to 6 cards that is not a legal play,
\* the empty one included, is classified "Invalid Hand" with damage 0, and
\* every legal one gets its highest category and base plus face values.
C15_IllegalIsInvalidHand ==
  ~fault =>
    \A sel \in Selections :
      evaluateHand(sel) =
        IF LegalPlay(CardSet(sel)) THEN Scored(CardSet(sel))
        ELSE [type |-> "Invalid Hand", damage |-> 0]

\* C15: a selection of no card is classified "No Cards" with damage 0;
\* every other selection of up to 6 cards that is not a legal play is
\* classified "Invalid Hand" with damage 0; every legal one gets the
\* highest category it fits and that category's base plus the face values
\* of its cards, and that is what a playHand of it records as the last hand.
C15_ClassifyLegalPlays ==
  ~fault =>
    /\ \A sel \in Selections :
         evaluateHand(sel) =
           IF sel = << >> THEN [type |-> "No Cards", damage |-> 0]
           ELSE IF LegalPlay(CardSet(sel)) THEN Scored(CardSet(sel))
           ELSE [type |-> "Invalid Hand", damage |-> 0]
    /\ \A r \in DOMAIN rooms, s \in AnySession, draws \in Streams :
         LET w == hPlayHand(World, s, r, draws)
             sel == objs[players[s]].selectedCards
         IN (Sent(w, "handPlayed") \/ Sent(w, "gameEnded")) =>
              /\ LegalPlay(CardSet(sel))
              /\ w.rooms[r].lastPlayedHand = Scored(CardSet(sel))

\* The ace to king of hearts are selected, and a wheel of mixed suits has
\* been played before
C15_Witness ==
  \E r \in DOMAIN rooms, o \in 1 .. Len(objs) :
    /\ objs[o].inGame
    /\ evaluateHand(objs[o].selectedCards).type = "Royal Flush"
    /\ rooms[r].lastPlayedHand = [type |-> "Straight", damage |-> 48]

\* The hand with the flag of card cardId flipped
Toggled(hand, cardId) ==
  [k \in 1 .. Len(hand) |->
     IF hand[k].id = cardId THEN [hand[k] EXCEPT !.selected = ~@] ELSE hand[k]]

\* C16: in a playing room, a selectCard of the current player on a card of
\* their hand changes only that card's selected flag and the player's
\* selectedCards, and a second one on the same card brings the room and
\* both players back to what they were.
C16_SelectTwiceIsIdentity ==
  ~fault =>
    \A r \in DOMAIN rooms, s \in AnySession :
      (rooms[r].gameState = "playing" /\ FindIndex(World, r, s) # -1
         /\ IsCurrent(s, r)) =>
        LET o == rooms[r].players[rooms[r].currentPlayer + 1]
        IN \A cardId \in IdsOf(objs[o].hand) :
             LET once == hSelectCard(World, s, r, cardId)
                 twice == hSelectCard(once, s, r, cardId)
             IN /\ Untouched([once EXCEPT
                                !.objs[o].hand = objs[o].hand,
                                !.objs[o].selectedCards = objs[o].selectedCards])
                /\ once.objs[o].hand = Toggled(objs[o].hand, cardId)
                /\ Untouched(twice)

\* C19: the selectedCards of every dealt player are exactly the cards of
\* the hand whose selected flag is set, so that the cards a playHand or a
\* buildArmor validates and scores are the cards it removes from the hand.
C19_SelectionIsFlaggedCards ==
  ~fault =>
    \A r \in DOMAIN rooms : \A o \in PlayersOf(r) :
      objs[o].inGame => objs[o].selectedCards = SelectedOf(objs[o].hand)

\* What the five turn handlers emit for session s on room r when they
\* refuse: sel and mark for the card handlers, armor for buildArmor
Refusals(r, s, armor) ==
  /\ (rooms[r].gameState # "playing" \/ ~IsCurrent(s, r)) =>
       /\ \A cardId \in CardInputs(r) :
            /\ hSelectCard(World, s, r, cardId).out = << >>
            /\ hMarkForDiscard(World, s, r, cardId).out = << >>
       /\ hDiscardCards(World, s, r).out = << >>
       /\ \A draws \in Streams :
            /\ hPlayHand(World, s, r, draws).out = << >>
            /\ hBuildArmor(World, s, r, draws).out = armor
  /\ (rooms[r].gameState = "playing" /\ IsCurrent(s, r) /\ s \in DOMAIN players) =>
       \A cardId \in CardInputs(r) \
                     IdsOf(objs[rooms[r].players[rooms[r].currentPlayer + 1]].hand) :
         /\ hSelectCard(World, s, r, cardId).out = << >>
         /\ hMarkForDiscard(World, s, r, cardId).out = << >>

\* C17 as stated: a selectCard, markForDiscard, discardCards, playHand or
\* buildArmor refused because the sender is not the current player, the
\* room is not playing or the card is not in the sender's hand emits
\* nothing.
C17_RefusalsAreSilent ==
  ~fault => \A r \in DOMAIN rooms, s \in AnySession : Refusals(r, s, << >>)

\* C17: those refusals emit nothing, except that a buildArmor of a named
\* session that is not the current player of a playing Tactical room is
\* answered by one error to the sender alone.
C17_RefusalsSilentButArmor ==
  ~fault =>
    \A r \in DOMAIN rooms, s \in AnySession :
      Refusals(r, s,
               IF /\ s \in DOMAIN players
                  /\ rooms[r].gameMode = TACTICAL
                  /\ rooms[r].gameState = "playing"
               THEN <<[to |-> s, ev |-> "error", ch |-> "socket"]>>
               ELSE << >>)

\* An event was refused without a word in a playing room where the current
\* player holds a selection
C17_Witness ==
  \E r \in DOMAIN rooms :
    /\ rooms[r].gameState = "playing"
    /\ out = << >>
    /\ \E o \in PlayersOf(r) : objs[o].selectedCards # << >>

\* C18: no sequence of inbound events makes a handler throw on a player,
\* an opponent or a card that is not there.
C18_NoHandlerThrows == fault = FALSE

\* C20: a room that is playing holds exactly two players and its
\* currentPlayer is the index of one of them, also after a leaveRoom or a
\* disconnect during the game.
C20_PlayingRoomsHoldTwo ==
  \A r \in DOMAIN rooms :
    rooms[r].gameState = "playing" =>
      /\ Len(rooms[r].players) = 2
      /\ rooms[r].currentPlayer \in {0, 1}

\* A start scheduled for room r has not fired yet
StartPending(r) == \E i \in 1 .. Len(timers) : timers[i] = r

\* C21: while a start scheduled by a joinRoom that filled room r is still
\* to fire, the room is waiting and every selectCard, markForDiscard,
\* discardCards, playHand and buildArmor changes nothing, whether or not a
\* player left the room before that join.
C21_WaitingUntilStartFires ==
  ~fault =>
    \A r \in DOMAIN rooms :
      (StartPending(r) /\ Len(rooms[r].players) = 2) =>
        /\ rooms[r].gameState = "waiting"
        /\ \A s \in AnySession :
             /\ \A cardId \in CardInputs(r) :
                  /\ Untouched(hSelectCard(World, s, r, cardId))
                  /\ Untouched(hMarkForDiscard(World, s, r, cardId))
             /\ Untouched(hDiscardCards(World, s, r))
             /\ \A draws \in Streams :
                  /\ Untouched(hPlayHand(World, s, r, draws))
                  /\ Untouched(hBuildArmor(World, s, r, draws))

\* C22: a start that fires on a room that is not waiting changes neither
\* the room (draw pile, turn, currentPlayer) nor its players (health,
\* hands), whatever joins, leaves and disconnects came before it.
C22_StartOnlyFromWaiting ==
  ~fault =>
    \A r \in DOMAIN rooms, draws \in Streams, first \in Coin :
      (timers # << >> /\ Head(timers) = r /\ rooms[r].gameState # "waiting") =>
        LET w == hStartGame([World EXCEPT !.timers = Tail(timers)], r, draws, first)
        IN w.rooms = rooms /\ w.objs = objs

Ids(cards) == MapSeq(IdOf, cards)

Occurrences(s, x) == Cardinality({i \in 1 .. Len(s) : s[i] = x})

\* a holds the cards of b, each as often, in some order
Permutes(a, b) ==
  /\ Len(a) = Len(b)
  /\ \A i \in 1 .. Len(b) : Occurrences(a, b[i]) = Occurrences(b, b[i])

\* C23: in a Recycling room a playHand that goes through appends the played
\* cards to the discard pile; if the draw pile then holds fewer than 8 cards
\* and the discard pile is not empty, the draw pile becomes the old draw
\* pile, in order, followed by the discard pile in some order, and the
\* discard pile is emptied; otherwise neither pile changes; the new hand is
\* the first 8 cards (or all, if fewer) of the resulting draw pile.
C23_ReshuffleWhenShort ==
  ~fault =>
    \A r \in DOMAIN rooms, s \in AnySession, draws \in Streams :
      LET w == hPlayHand(World, s, r, draws)
      IN (rooms[r].gameMode = RECYCLING
            /\ (Sent(w, "handPlayed") \/ Sent(w, "gameEnded"))) =>
           LET o == rooms[r].players[rooms[r].currentPlayer + 1]
               pile == Ids(rooms[r].discardPile)
                         \o Ids(SelectSeq(objs[o].hand, IsSelected))
               deck == Ids(rooms[r].deck)
               drawPile == Ids(w.objs[o].hand) \o Ids(w.rooms[r].deck)
               n == Len(deck)
           IN /\ IF n < 8 /\ pile # << >>
                 THEN /\ Len(drawPile) = n + Len(pile)
                      /\ SubSeq(drawPile, 1, n) = deck
                      /\ Permutes(SubSeq(drawPile, n + 1, Len(drawPile)), pile)
                      /\ w.rooms[r].discardPile = << >>
                 ELSE /\ drawPile = deck
                      /\ Ids(w.rooms[r].discardPile) = pile
              /\ Len(w.objs[o].hand) = Min(8, Len(drawPile))

\* The discard pile has just been shuffled under a draw pile of fewer than
\* 8 cards, and the hand drawn holds cards of both
C23_Witness ==
  \E r \in DOMAIN rooms :
    /\ rooms[r].gameMode = RECYCLING
    /\ rooms[r].turn > 5
    /\ rooms[r].discardPile = << >>
    /\ Sent(World, "handPlayed")
    /\ \E o \in PlayersOf(r) : Len(objs[o].hand) = HandSize

\* C24: in a playing room with both players present the current player
\* holds at least one card, so that a playHand of one selected card can
\* end the turn, in every mode and after any number of turns.
C24_CurrentPlayerHoldsCards ==
  ~fault =>
    \A r \in DOMAIN rooms :
      (rooms[r].gameState = "playing" /\ Len(rooms[r].players) = 2) =>
        LET o == rooms[r].players[rooms[r].currentPlayer + 1]
        IN objs[o].inGame => Len(objs[o].hand) > 0

\* Room r and the player objects are as they were
SameRoom(w, r) == w.rooms[r] = rooms[r] /\ w.objs = objs

\* C25: a selectCard, markForDiscard, discardCards, makePrediction,
\* playHand, buildArmor or acceptRematch naming room r, sent by a session
\* that is not in r's player list, changes neither the room nor its players.
C25_OutsidersChangeNothing ==
  ~fault =>
    \A r \in DOMAIN rooms, s \in AnySession :
      FindIndex(World, r, s) = -1 =>
        /\ \A cardId \in CardInputs(r) :
             /\ SameRoom(hSelectCard(World, s, r, cardId), r)
             /\ SameRoom(hMarkForDiscard(World, s, r, cardId), r)
        /\ SameRoom(hDiscardCards(World, s, r), r)
        /\ \A prediction \in PredictionInputs :
             SameRoom(hMakePrediction(World, s, r, prediction), r)
        /\ \A draws \in Streams :
             /\ SameRoom(hPlayHand(World, s, r, draws), r)
             /\ SameRoom(hBuildArmor(World, s, r, draws), r)
             /\ \A first \in Coin :
                  SameRoom(hAcceptRematch(World, s, r, draws, first), r)

====
